---------------------------- MODULE Spec2Model ----------------------------
(***************************************************************************)
(* A model of converter-long.py, the Streamlit page that reshapes an       *)
(* uploaded CSV into the IAMC wide and long formats.                       *)
(*                                                                         *)
(* One script run of the page is one step.  The session state of the page  *)
(* (st.session_state), the upload folder on disk and what the last run     *)
(* displayed are the state.  Tables are pandas DataFrames: a sequence of   *)
(* column labels and a sequence of rows.  Every index the page builds is a *)
(* RangeIndex 0..n-1 (read_csv, reset_index), so a row's index label is    *)
(* its position, and index alignment is alignment by position.             *)
(***************************************************************************)
EXTENDS Integers, Sequences, FiniteSets, TLC

VARIABLES
    folder,              \* data/default_user: file name -> content, or NoContent
    uploaded_file,       \* the st.file_uploader widget: NoUpload or [name, content]
    selected_file,       \* the "Choose a CSV file" selectbox
    last_selected_file,  \* st.session_state.last_selected_file
    year_transformed,    \* st.session_state.year_transformed
    year_df,             \* st.session_state.year_df
    rest_labels,         \* st.session_state.rest_labels
    mapping_transformed, \* st.session_state.mapping_transformed
    mapping_df,          \* st.session_state.mapping_df
    final_iamc_df,       \* st.session_state.final_iamc_df
    final_iamc_long_df,  \* st.session_state.final_iamc_long_df
    year_config,         \* the year widgets at the "Transform Year Columns" click behind year_df
    mapping_config,      \* the map_input results at the "Transform DataFrame" click behind mapping_df
    button,              \* what the user did to start the last script run
    messages,            \* st.warning / st.success / st.error / exception shown by that run
    call                 \* a call of one of the page's two pure functions, and its result

vars == <<folder, uploaded_file, selected_file, last_selected_file,
          year_transformed, year_df, rest_labels, mapping_transformed, mapping_df,
          final_iamc_df, final_iamc_long_df, year_config, mapping_config,
          button, messages, call>>

-----------------------------------------------------------------------------
(* Bounds of the model. *)

\* Longest text handed to convert_iso_to_country_name.
MaxCodeLen == 4
\* Most rows of a table handed to create_breadcrumbs on its own.
MaxRows == 2

-----------------------------------------------------------------------------
(* Values: a cell of a DataFrame is a Python int, a Python str or NaN. *)

IntV(n) == [kind |-> "int", val |-> n]
StrV(s) == [kind |-> "str", val |-> s]
NaN == [kind |-> "nan", val |-> 0]

\* Python's None, where a table or a list is expected.
None == [kind |-> "None"]
\* st.session_state.last_selected_file = None
NoFile == "<None>"
\* The selectbox's first option.
Placeholder == "-- Select a file --"

DataFrame(columns, rows) == [kind |-> "DataFrame", cols |-> columns, rows |-> rows]
NRows(df) == Len(df.rows)
RowIndex(df) == 1..Len(df.rows)
ColIdx(df, label) == CHOOSE j \in 1..Len(df.cols) : df.cols[j] = label
Cell(df, i, label) == df.rows[i][ColIdx(df, label)]
Range(s) == {s[i] : i \in DOMAIN s}

-----------------------------------------------------------------------------
(* Text. *)

DigitChars == "0123456789"
UpperChars == "ABCDEFGHIJKLMNOPQRSTUVWXYZ"
LowerChars == "abcdefghijklmnopqrstuvwxyz"
\* Code point order of the characters the model uses.
CodePoints == " " \o DigitChars \o UpperChars \o LowerChars \o "|"

CharAt(s, i) == SubSeq(s, i, i)
CharIn(c, chars) == \E i \in 1..Len(chars) : CharAt(chars, i) = c
CharPos(c, chars) == CHOOSE i \in 1..Len(chars) : CharAt(chars, i) = c

RECURSIVE IntToStr(_)
IntToStr(n) ==
    IF n < 10 THEN CharAt(DigitChars, n + 1)
    ELSE IntToStr(n \div 10) \o CharAt(DigitChars, (n % 10) + 1)

\* Series.astype(str) on one cell.
AsTypeStr(v) ==
    CASE v.kind = "int" -> IntToStr(v.val)
      [] v.kind = "str" -> v.val
      [] OTHER -> "nan"

\* str.upper()
UpperChar(c) ==
    IF CharIn(c, LowerChars) THEN CharAt(UpperChars, CharPos(c, LowerChars)) ELSE c

RECURSIVE upper(_)
upper(s) == IF s = "" THEN "" ELSE UpperChar(CharAt(s, 1)) \o upper(Tail(s))

\* str.isdigit()
isdigit(s) == s # "" /\ \A i \in 1..Len(s) : CharIn(CharAt(s, i), DigitChars)

\* str.zfill(width)
RECURSIVE zfill(_, _)
zfill(s, width) == IF Len(s) >= width THEN s ELSE zfill("0" \o s, width)

\* Python's < on str.
RECURSIVE StrLess(_, _)
StrLess(a, b) ==
    IF b = "" THEN FALSE
    ELSE IF a = "" THEN TRUE
    ELSE IF CharAt(a, 1) = CharAt(b, 1) THEN StrLess(Tail(a), Tail(b))
    ELSE CharPos(CharAt(a, 1), CodePoints) < CharPos(CharAt(b, 1), CodePoints)

-----------------------------------------------------------------------------
(* create_breadcrumbs *)

\* Series.str[:-1]
DropLast(s) == IF Len(s) = 0 THEN s ELSE SubSeq(s, 1, Len(s) - 1)

\* The loop of create_breadcrumbs: breadcrumb_df after the labels of ls.
RECURSIVE breadcrumb_loop(_, _)
breadcrumb_loop(from_df, ls) ==
    IF ls = <<>> THEN [i \in RowIndex(from_df) |-> ""]
    ELSE LET before == breadcrumb_loop(from_df, SubSeq(ls, 1, Len(ls) - 1))
             label == ls[Len(ls)]
         IN [i \in RowIndex(from_df) |->
                before[i] \o AsTypeStr(Cell(from_df, i, label)) \o "|"]

create_breadcrumbs_keep_last(from_df, in_label_series) ==
    breadcrumb_loop(from_df, in_label_series)

create_breadcrumbs(from_df, in_label_series) ==
    LET breadcrumb_df == breadcrumb_loop(from_df, in_label_series)
    IN [i \in RowIndex(from_df) |-> DropLast(breadcrumb_df[i])]

-----------------------------------------------------------------------------
(* convert_iso_to_country_name *)

\* Three entries of pycountry.countries.
countries ==
    { [alpha_2 |-> "US", alpha_3 |-> "USA", numeric |-> "840", name |-> "United States"],
      [alpha_2 |-> "GR", alpha_3 |-> "GRC", numeric |-> "300", name |-> "Greece"],
      [alpha_2 |-> "AF", alpha_3 |-> "AFG", numeric |-> "004", name |-> "Afghanistan"] }

\* country.name if country else iso_code
name_or(found, iso_code) ==
    IF found = {} THEN iso_code ELSE StrV((CHOOSE c \in found : TRUE).name)

\* len() of a float raises TypeError, which the bare except turns into iso_code.
convert_iso_to_country_name(iso_code) ==
    IF iso_code.kind # "str" THEN iso_code
    ELSE LET s == iso_code.val IN
         IF Len(s) = 2
             THEN name_or({c \in countries : c.alpha_2 = upper(s)}, iso_code)
         ELSE IF Len(s) = 3
             THEN name_or({c \in countries : c.alpha_3 = upper(s)}, iso_code)
         ELSE IF isdigit(s)
             THEN name_or({c \in countries : c.numeric = zfill(s, 3)}, iso_code)
         ELSE iso_code

-----------------------------------------------------------------------------
(* The pandas operations the page uses. *)

\* Python's < on two cells of one column; sorting puts NaN last.  A column
\* read by read_csv holds ints or strs, never both.
ValueLess(a, b) ==
    CASE a.kind = "int" /\ b.kind = "int" -> a.val < b.val
      [] a.kind = "str" /\ b.kind = "str" -> StrLess(a.val, b.val)
      [] OTHER -> a.kind # "nan" /\ b.kind = "nan"

\* Order of the entries of a MultiIndex: level by level.
RECURSIVE TupleLess(_, _)
TupleLess(a, b) ==
    IF a = <<>> \/ b = <<>> THEN FALSE
    ELSE IF a[1] = b[1] THEN TupleLess(Tail(a), Tail(b))
    ELSE ValueLess(a[1], b[1])

RECURSIVE SortedTuples(_)
SortedTuples(S) ==
    IF S = {} THEN <<>>
    ELSE LET least == CHOOSE x \in S : \A y \in S \ {x} : TupleLess(x, y)
         IN <<least>> \o SortedTuples(S \ {least})

SortedValues(S) ==
    LET sorted == SortedTuples({<<v>> : v \in S})
    IN [k \in 1..Len(sorted) |-> sorted[k][1]]

\* [col for col in columns if col not in excluded]
Without(columns, excluded) ==
    LET keep(col) == col \notin excluded IN SelectSeq(columns, keep)

\* The index entry DataFrame.pivot gives row i: its values in the index columns.
pivot_key(df, index, i) == [k \in 1..Len(index) |-> Cell(df, i, index[k])]

\* DataFrame.pivot raises ValueError ("Index contains duplicate entries") when
\* two rows agree on the index columns and on the columns column.
pivot_raises(df, index, columns) ==
    \E i, j \in RowIndex(df) :
        /\ i # j
        /\ pivot_key(df, index, i) = pivot_key(df, index, j)
        /\ Cell(df, i, columns) = Cell(df, j, columns)

\* The index of the pivoted table: the distinct index entries, sorted.
pivot_index(df, index) == SortedTuples({pivot_key(df, index, i) : i \in RowIndex(df)})

\* df.pivot(index=index, columns=columns, values=values) followed by
\* reset_index(drop=True): one row per index entry, one column per value of
\* the columns column, both sorted; a cell no row fills is NaN.
pivot(df, index, columns, values) ==
    LET keys == pivot_index(df, index)
        labels == SortedValues({Cell(df, i, columns) : i \in RowIndex(df)})
        cell(key, label) ==
            LET hit == {i \in RowIndex(df) : /\ pivot_key(df, index, i) = key
                                             /\ Cell(df, i, columns) = label}
            IN IF hit = {} THEN NaN ELSE Cell(df, CHOOSE i \in hit : TRUE, values)
    IN DataFrame(labels,
                 [k \in 1..Len(keys) |-> [c \in 1..Len(labels) |-> cell(keys[k], labels[c])]])

\* df[year_columns]
select_columns(df, labels) ==
    DataFrame(labels,
              [i \in RowIndex(df) |-> [c \in 1..Len(labels) |-> Cell(df, i, labels[c])]])

\* A row of df at index label i, NaN in every column where df has no such row.
RowOrNaN(df, i) == IF i \in RowIndex(df) THEN df.rows[i] ELSE [c \in 1..Len(df.cols) |-> NaN]

\* pd.concat([left, right], axis=1).reset_index(drop=True): an outer join on
\* the index, so the result has the rows of the longer table.
concat_axis1(left, right) ==
    LET n == IF NRows(left) >= NRows(right) THEN NRows(left) ELSE NRows(right)
    IN DataFrame(left.cols \o right.cols,
                 [i \in 1..n |-> RowOrNaN(left, i) \o RowOrNaN(right, i)])

YearLabel == StrV("Year")
ValueLabel == StrV("Value")

melt_first_value_column(df, id_vars) ==
    LET value_vars == Without(df.cols, Range(id_vars))
        n == NRows(df)
    IN DataFrame(id_vars \o <<YearLabel, ValueLabel>>,
                 [k \in 1..(n * Len(value_vars)) |->
                     LET c == ((k - 1) \div n) + 1
                         i == ((k - 1) % n) + 1
                     IN [j \in 1..Len(id_vars) |-> Cell(df, i, id_vars[j])]
                        \o <<value_vars[c], Cell(df, i, value_vars[1])>>])

\* df.melt(id_vars=id_vars, var_name='Year', value_name='Value'): the value
\* columns are the columns not in id_vars; the rows of the first value column
\* come first, then those of the second, ...
melt(df, id_vars) ==
    LET value_vars == Without(df.cols, Range(id_vars))
        n == NRows(df)
    IN DataFrame(id_vars \o <<YearLabel, ValueLabel>>,
                 [k \in 1..(n * Len(value_vars)) |->
                     LET c == ((k - 1) \div n) + 1
                         i == ((k - 1) % n) + 1
                     IN [j \in 1..Len(id_vars) |-> Cell(df, i, id_vars[j])]
                        \o <<value_vars[c], Cell(df, i, value_vars[c])>>])

-----------------------------------------------------------------------------
(* The user's folder, the CSV files and what the user enters in the widgets. *)

FileNames == {"a.csv", "b.csv"}
NoContent == "<absent>"
NoUpload == [name |-> "", content |-> NoContent]

\* a.csv: years in rows.
CsvA ==
    DataFrame(<<StrV("Country"), StrV("Year"), StrV("Val")>>,
              << <<StrV("US"), IntV(2010), IntV(5)>>,
                 <<StrV("US"), IntV(2020), IntV(7)>>,
                 <<StrV("GR"), IntV(2010), IntV(8)>> >>)

\* b.csv: years in columns.
CsvB ==
    DataFrame(<<StrV("Country"), StrV("Y2010"), StrV("Y2020")>>,
              << <<StrV("usa"), IntV(5), IntV(7)>>,
                 <<StrV("4"), IntV(5), IntV(9)>>,
                 <<StrV("usa"), IntV(5), IntV(8)>> >>)

Contents == {"A", "B"}
Parsed(content) == IF content = "A" THEN CsvA ELSE CsvB

\* [f for f in os.listdir(user_folder) if f.endswith('.csv')]
csv_files == {f \in FileNames : folder[f] # NoContent}

\* pd.read_csv(os.path.join(user_folder, selected_file))
read_csv(file) == Parsed(folder[file])

\* The columns the user picks in the two selectboxes of row mode, and the
\* lists the user picks in the multiselect of column mode.
YearColumnPicks == {StrV("Year"), StrV("Y2010")}
ValueColumnPicks == {StrV("Year"), StrV("Val"), StrV("Y2020")}
YearColumnsPicks == {<<>>, <<StrV("Y2010"), StrV("Y2020")>>}

year_inputs(available_columns) ==
    {[years_in_rows |-> TRUE, year_column |-> y, value_column |-> v, year_columns |-> <<>>] :
        y \in YearColumnPicks \cap Range(available_columns),
        v \in ValueColumnPicks \cap Range(available_columns)}
    \cup
    {[years_in_rows |-> FALSE, year_column |-> NaN, value_column |-> NaN, year_columns |-> l] :
        l \in {x \in YearColumnsPicks : Range(x) \subseteq Range(available_columns)}}

\* What map_input returns: (None, static_text) with the checkbox ticked,
\* (selected_cols, None) without.
Static(text) == [use_static |-> TRUE, static_text |-> text, selected_cols |-> <<>>]
Columns(cols) == [use_static |-> FALSE, static_text |-> "", selected_cols |-> cols]

Fields == <<"Model", "Scenario", "Region", "Variable", "Unit">>
expected_id_vars == [k \in 1..Len(Fields) |-> StrV(Fields[k])]

\* The mappings the user enters: static texts only (one of them empty); or a
\* static text, one column and a breadcrumb of all available columns.  The
\* other fields are left with no column selected.
mapping_inputs(available_columns) ==
    { [f \in Range(Fields) |->
          CASE f = "Model" -> Static("M")
            [] f = "Region" -> Static("us")
            [] f = "Unit" -> Static("")
            [] OTHER -> Columns(<<>>)],
      [f \in Range(Fields) |->
          CASE f = "Model" -> Static("M")
            [] f = "Region" -> Columns(<<available_columns[1]>>)
            [] f = "Variable" -> Columns(available_columns)
            [] OTHER -> Columns(<<>>)] }

-----------------------------------------------------------------------------
(* The stages of the page. *)

\* rest_labels of "Transform Year Columns".
year_rest_labels(df, cfg) ==
    IF cfg.years_in_rows
    THEN Without(df.cols, {cfg.year_column, cfg.value_column})
    ELSE Without(df.cols, Range(cfg.year_columns))

\* Whether "Transform Year Columns" ends in an exception.
year_raises(df, cfg) ==
    cfg.years_in_rows /\ pivot_raises(df, year_rest_labels(df, cfg), cfg.year_column)

\* year_df of "Transform Year Columns".
year_table(df, cfg) ==
    IF cfg.years_in_rows
    THEN pivot(df, year_rest_labels(df, cfg), cfg.year_column, cfg.value_column)
    ELSE select_columns(df, cfg.year_columns)

\* One column of transformed_df after "Transform DataFrame": transformed_df
\* has the index of year_df; a static text fills every row; a breadcrumb
\* Series, indexed like df, is aligned to that index.
mapped_column(df, index, input) ==
    IF input.use_static /\ input.static_text # ""
    THEN [i \in index |-> StrV(input.static_text)]
    ELSE IF ~input.use_static /\ input.selected_cols # <<>>
    THEN LET breadcrumbs == create_breadcrumbs(df, input.selected_cols)
         IN [i \in index |-> IF i \in RowIndex(df) THEN StrV(breadcrumbs[i]) ELSE NaN]
    ELSE [i \in index |-> NaN]

\* transformed_df at the end of "Transform DataFrame".
mapped_table(df, year, inputs) ==
    LET column(f) ==
            LET c == mapped_column(df, RowIndex(year), inputs[f])
            IN IF f = "Region"
               THEN [i \in RowIndex(year) |-> convert_iso_to_country_name(c[i])]
               ELSE c
    IN DataFrame(expected_id_vars,
                 [i \in RowIndex(year) |-> [k \in 1..Len(Fields) |-> column(Fields[k])[i]]])

\* id_vars and year_columns of "Transform to Long Format".
long_id_vars(df) == LET present(col) == col \in Range(df.cols) IN SelectSeq(expected_id_vars, present)
long_year_columns(df) == Without(df.cols, Range(long_id_vars(df)))

\* st.error("Cannot transform to long format: ...")
LongError == "error: cannot transform to long format"

long_refused_without_ids(id_vars, year_columns) == id_vars = <<>>

\* if not id_vars or not year_columns
long_refused(id_vars, year_columns) == id_vars = <<>> \/ year_columns = <<>>

-----------------------------------------------------------------------------
(* Script runs.  A click or a changed widget starts a run of the whole      *)
(* script; st.rerun() starts it again with no button pressed, and that run  *)
(* changes nothing.  messages is what the last of these runs displayed.     *)

\* The upload section of a run whose uploader still holds a file that a
\* former run has saved: os.path.exists(save_path) holds.
UploadWarning == IF uploaded_file = NoUpload THEN {} ELSE {"warning: file already exists"}

\* if selected_file and selected_file != "-- Select a file --"
FileChosen == selected_file \in csv_files

\* Session state as the script's first lines initialise it.
SessionInit ==
    /\ year_transformed = FALSE
    /\ year_df = None
    /\ rest_labels = None
    /\ mapping_transformed = FALSE
    /\ mapping_df = None
    /\ final_iamc_df = None
    /\ final_iamc_long_df = None
    /\ year_config = None
    /\ mapping_config = None
    /\ call = [fn |-> "none", done |-> FALSE]

\* if selected_file != st.session_state.last_selected_file
FileSelection(selected) ==
    IF selected # last_selected_file
    THEN /\ last_selected_file' = selected
         /\ year_transformed' = FALSE
         /\ year_df' = None
         /\ rest_labels' = None
         /\ mapping_transformed' = FALSE
         /\ mapping_df' = None
         /\ year_config' = None
         /\ mapping_config' = None
    ELSE UNCHANGED <<last_selected_file, year_transformed, year_df, rest_labels,
                     mapping_transformed, mapping_df, year_config, mapping_config>>

\* The user picks another entry of the selectbox.
SelectFile(f) ==
    /\ csv_files # {}
    /\ f \in {Placeholder} \cup csv_files
    /\ f # selected_file
    /\ selected_file' = f
    /\ FileSelection(f)
    /\ button' = "Choose a CSV file"
    /\ messages' = UploadWarning
    /\ UNCHANGED <<folder, uploaded_file, final_iamc_df, final_iamc_long_df, call>>

\* The user sets the year widgets to cfg and clicks "Transform Year Columns".
\* With year_transformed set the button's branch is skipped and the run only
\* shows the year table again.
TransformYearColumns(cfg) ==
    /\ FileChosen
    /\ LET df == read_csv(selected_file) IN
        IF year_transformed
        THEN /\ messages' = UploadWarning
             /\ UNCHANGED <<year_df, year_transformed, rest_labels, year_config>>
        ELSE IF year_raises(df, cfg)
        THEN /\ messages' = UploadWarning \cup {"exception"}
             /\ year_config' = cfg
             /\ UNCHANGED <<year_df, year_transformed, rest_labels>>
        ELSE /\ year_df' = year_table(df, cfg)
             /\ year_transformed' = TRUE
             /\ rest_labels' = year_rest_labels(df, cfg)
             /\ year_config' = cfg
             /\ messages' = UploadWarning
    /\ button' = "Transform Year Columns"
    /\ UNCHANGED <<folder, uploaded_file, selected_file, last_selected_file,
                   mapping_transformed, mapping_df, final_iamc_df, final_iamc_long_df,
                   mapping_config, call>>

ClearYearTransformation ==
    /\ FileChosen
    /\ year_transformed
    /\ year_transformed' = FALSE
    /\ year_df' = None
    /\ rest_labels' = None
    /\ year_config' = None
    /\ button' = "Clear Year Transformation"
    /\ messages' = UploadWarning
    /\ UNCHANGED <<folder, uploaded_file, selected_file, last_selected_file,
                   mapping_transformed, mapping_df, final_iamc_df, final_iamc_long_df,
                   mapping_config, call>>

\* The user fills the five map_input groups with inputs and clicks
\* "Transform DataFrame".
TransformDataFrame(inputs) ==
    /\ FileChosen
    /\ year_transformed
    /\ mapping_df' = mapped_table(read_csv(selected_file), year_df, inputs)
    /\ mapping_transformed' = TRUE
    /\ mapping_config' = [inputs |-> inputs, year_config |-> year_config]
    /\ button' = "Transform DataFrame"
    /\ messages' = UploadWarning
    /\ UNCHANGED <<folder, uploaded_file, selected_file, last_selected_file,
                   year_transformed, year_df, rest_labels, final_iamc_df,
                   final_iamc_long_df, year_config, call>>

ClearMappingTransformation ==
    /\ FileChosen
    /\ year_transformed
    /\ mapping_transformed
    /\ mapping_transformed' = FALSE
    /\ mapping_df' = None
    /\ mapping_config' = None
    /\ button' = "Clear Mapping Transformation"
    /\ messages' = UploadWarning
    /\ UNCHANGED <<folder, uploaded_file, selected_file, last_selected_file,
                   year_transformed, year_df, rest_labels, final_iamc_df,
                   final_iamc_long_df, year_config, call>>

TransformToIAMC ==
    /\ FileChosen
    /\ year_transformed
    /\ mapping_transformed
    /\ final_iamc_df' = concat_axis1(mapping_df, year_df)
    /\ button' = "Transform to IAMC Format"
    /\ messages' = UploadWarning
    /\ UNCHANGED <<folder, uploaded_file, selected_file, last_selected_file,
                   year_transformed, year_df, rest_labels, mapping_transformed, mapping_df,
                   final_iamc_long_df, year_config, mapping_config, call>>

TransformToLong ==
    /\ FileChosen
    /\ year_transformed
    /\ final_iamc_df # None
    /\ LET df == final_iamc_df
           id_vars == long_id_vars(df)
           year_columns == long_year_columns(df)
       IN IF long_refused(id_vars, year_columns)
          THEN /\ messages' = UploadWarning \cup {LongError}
               /\ UNCHANGED final_iamc_long_df
          ELSE /\ final_iamc_long_df' = melt(df, id_vars)
               /\ messages' = UploadWarning
    /\ button' = "Transform to Long Format"
    /\ UNCHANGED <<folder, uploaded_file, selected_file, last_selected_file,
                   year_transformed, year_df, rest_labels, mapping_transformed, mapping_df,
                   final_iamc_df, year_config, mapping_config, call>>

\* A session opened on a folder that holds both files: the first run finds
\* the selectbox on its first option and records it.
Init ==
    /\ folder = [f \in FileNames |-> IF f = "a.csv" THEN "A" ELSE "B"]
    /\ uploaded_file = NoUpload
    /\ selected_file = Placeholder
    /\ last_selected_file = Placeholder
    /\ SessionInit
    /\ button = "none"
    /\ messages = {}

\* What the year widgets and the map_input groups offer in this state.
YearInputsOffered == IF FileChosen THEN year_inputs(read_csv(selected_file).cols) ELSE {}
MappingInputsOffered ==
    IF FileChosen /\ year_transformed THEN mapping_inputs(rest_labels) ELSE {}

Next ==
    \/ \E f \in FileNames \cup {Placeholder} : SelectFile(f)
    \/ \E cfg \in YearInputsOffered : TransformYearColumns(cfg)
    \/ ClearYearTransformation
    \/ \E inputs \in MappingInputsOffered : TransformDataFrame(inputs)
    \/ ClearMappingTransformation
    \/ TransformToIAMC
    \/ TransformToLong

Spec == Init /\ [][Next]_vars

-----------------------------------------------------------------------------
(* Uploads: a session opened on an empty folder. *)

upload_section_overwrites(name, content) == [folder EXCEPT ![name] = content]

\* The folder after the upload section of a run whose uploader holds a new
\* file: if os.path.exists(save_path) ... else write.
upload_section(name, content) ==
    IF folder[name] # NoContent THEN folder ELSE [folder EXCEPT ![name] = content]

\* The user hands a file to the uploader.  A file that is saved changes the
\* selectbox's options; Streamlit may then keep the selection or put the
\* selectbox back on its first option, depending on its version.
Upload(name, content) ==
    /\ uploaded_file' = [name |-> name, content |-> content]
    /\ folder' = upload_section(name, content)
    /\ \E selected \in (IF folder[name] # NoContent
                          THEN {selected_file}
                          ELSE {selected_file, Placeholder}) :
          /\ selected_file' = selected
          /\ FileSelection(selected)
          /\ messages' = IF folder[name] = NoContent /\ selected = last_selected_file
                         THEN {"success: saved file"}
                         ELSE {"warning: file already exists"}
    /\ button' = "Upload CSV"
    /\ UNCHANGED <<final_iamc_df, final_iamc_long_df, call>>

InitUpload ==
    /\ folder = [f \in FileNames |-> NoContent]
    /\ uploaded_file = NoUpload
    /\ selected_file = Placeholder
    /\ last_selected_file = NoFile
    /\ SessionInit
    /\ button = "none"
    /\ messages = {}

NextUpload ==
    \/ \E name \in FileNames, content \in Contents : Upload(name, content)
    \/ \E f \in FileNames \cup {Placeholder} : SelectFile(f)

SpecUpload == InitUpload /\ [][NextUpload]_vars

-----------------------------------------------------------------------------
(* The two pure functions, called on their own. *)

IsoChars == {"0", "3", "4", "8", "U", "S", "s"}

RECURSIVE Texts(_)
Texts(n) == IF n = 0 THEN {""} ELSE LET shorter == Texts(n - 1)
                                    IN shorter \cup {t \o c : t \in shorter, c \in IsoChars}

IsoInputs == {StrV(t) : t \in Texts(MaxCodeLen)} \cup {NaN}

BreadcrumbColumns == <<StrV("A"), StrV("B")>>
BreadcrumbCells == {IntV(12), StrV("x"), StrV(""), NaN}
BreadcrumbRows == [1..Len(BreadcrumbColumns) -> BreadcrumbCells]
BreadcrumbTables ==
    {DataFrame(BreadcrumbColumns, rows) :
        rows \in UNION {[1..n -> BreadcrumbRows] : n \in 0..MaxRows}}
\* The non-empty lists of distinct columns a multiselect can return.
BreadcrumbLabels ==
    {<<a>> : a \in Range(BreadcrumbColumns)}
    \cup {l \in {<<a, b>> : a, b \in Range(BreadcrumbColumns)} : l[1] # l[2]}

\* The calls to make: the function, its arguments, no result yet.
PendingCalls ==
    {[fn |-> "convert_iso_to_country_name", done |-> FALSE, iso_code |-> iso_code] :
        iso_code \in IsoInputs}
    \cup
    {[fn |-> "create_breadcrumbs", done |-> FALSE, from_df |-> from_df,
      in_label_series |-> in_label_series] :
        from_df \in BreadcrumbTables, in_label_series \in BreadcrumbLabels}

CallConvertIso ==
    /\ call.fn = "convert_iso_to_country_name"
    /\ ~call.done
    /\ call' = [fn |-> call.fn, done |-> TRUE, iso_code |-> call.iso_code,
                result |-> convert_iso_to_country_name(call.iso_code)]
    /\ UNCHANGED <<folder, uploaded_file, selected_file, last_selected_file,
                   year_transformed, year_df, rest_labels, mapping_transformed, mapping_df,
                   final_iamc_df, final_iamc_long_df, year_config, mapping_config,
                   button, messages>>

CallCreateBreadcrumbs ==
    /\ call.fn = "create_breadcrumbs"
    /\ ~call.done
    /\ call' = [fn |-> call.fn, done |-> TRUE, from_df |-> call.from_df,
                in_label_series |-> call.in_label_series,
                result |-> create_breadcrumbs(call.from_df, call.in_label_series)]
    /\ UNCHANGED <<folder, uploaded_file, selected_file, last_selected_file,
                   year_transformed, year_df, rest_labels, mapping_transformed, mapping_df,
                   final_iamc_df, final_iamc_long_df, year_config, mapping_config,
                   button, messages>>

InitPure ==
    /\ folder = [f \in FileNames |-> NoContent]
    /\ uploaded_file = NoUpload
    /\ selected_file = Placeholder
    /\ last_selected_file = NoFile
    /\ year_transformed = FALSE
    /\ year_df = None
    /\ rest_labels = None
    /\ mapping_transformed = FALSE
    /\ mapping_df = None
    /\ final_iamc_df = None
    /\ final_iamc_long_df = None
    /\ year_config = None
    /\ mapping_config = None
    /\ button = "none"
    /\ messages = {}
    /\ call \in PendingCalls

NextPure == CallConvertIso \/ CallCreateBreadcrumbs

SpecPure == InitPure /\ [][NextPure]_vars

-----------------------------------------------------------------------------
(* Properties of the pure functions (SpecPure). *)

\* '|'.join(texts), for a non-empty list of texts.
RECURSIVE Joined(_)
Joined(texts) ==
    IF Len(texts) = 1 THEN texts[1] ELSE texts[1] \o "|" \o Joined(Tail(texts))

BreadcrumbCalled == call.fn = "create_breadcrumbs" /\ call.done

\* C10: for a non-empty list of columns create_breadcrumbs returns one string
\* per row of the table, in row order: the texts of the row's values in the
\* listed columns, in list order, with '|' between them and none at the end;
\* for one column that is the text of the column's value itself.
C10_BreadcrumbsJoinTheColumns ==
    BreadcrumbCalled =>
        LET df == call.from_df
            ls == call.in_label_series
            texts(i) == [k \in 1..Len(ls) |-> AsTypeStr(Cell(df, i, ls[k]))]
        IN /\ DOMAIN call.result = RowIndex(df)
           /\ \A i \in RowIndex(df) :
                 /\ call.result[i] = Joined(texts(i))
                 /\ Len(ls) = 1 => call.result[i] = AsTypeStr(Cell(df, i, ls[1]))

\* Two rows, two columns in the order B, A, one of the values an empty text.
C10_Witness ==
    /\ BreadcrumbCalled
    /\ call.in_label_series = <<StrV("B"), StrV("A")>>
    /\ NRows(call.from_df) = 2
    /\ call.result[1] = "x|12"
    /\ call.result[2] = "|nan"

IsoCalled == call.fn = "convert_iso_to_country_name" /\ call.done

\* C6: an all-digit text is zero-padded to three digits and looked up as an
\* ISO 3166-1 numeric code; where a country has that code the result is the
\* country's name, also for a text that is three digits long already.
C6_DigitsAreLookedUpAsNumericCode ==
    (IsoCalled /\ call.iso_code.kind = "str" /\ isdigit(call.iso_code.val)) =>
        \A c \in countries :
            c.numeric = zfill(call.iso_code.val, 3) => call.result = StrV(c.name)

-----------------------------------------------------------------------------
(* Properties of the upload section (SpecUpload). *)

Rejected == "warning: file already exists" \in messages

\* C9: a file of the folder is never rewritten: it appears by the upload of
\* its name and holds that upload's content from then on; the upload of a name
\* the folder holds already shows the warning and leaves the folder as it is.
C9_UploadsAreWriteOnce ==
    [][ /\ \A f \in FileNames :
            IF folder[f] # NoContent
            THEN folder'[f] = folder[f]
            ELSE folder'[f] # NoContent =>
                    /\ button' = "Upload CSV"
                    /\ uploaded_file' = [name |-> f, content |-> folder'[f]]
        /\ (button' = "Upload CSV" /\ folder[uploaded_file'.name] # NoContent) =>
              (folder' = folder /\ Rejected') ]_vars

\* A second upload of a name, with another content, was refused.
C9_Witness ==
    /\ button = "Upload CSV"
    /\ folder[uploaded_file.name] \notin {NoContent, uploaded_file.content}
    /\ Rejected

-----------------------------------------------------------------------------
(* Properties of the pipeline (Spec). *)

ErrorShown == messages \cap {LongError, "exception"} # {}

\* C1: "Transform to IAMC Format" on an identifier table and a year table of
\* different row counts shows an error and stores no wide table.
C1_MismatchedTablesAreReported ==
    [][ ( /\ button' = "Transform to IAMC Format"
          /\ NRows(mapping_df) # NRows(year_df) )
        => (ErrorShown' /\ final_iamc_df' = final_iamc_df) ]_vars

\* C2: whenever the assembly has run, the identifier table and the year table
\* of the session state have the same number of rows.
C2_AssembledTablesHaveEqualRowCounts ==
    button = "Transform to IAMC Format" => NRows(mapping_df) = NRows(year_df)

\* The identifier a breadcrumb over cols gives the identity key `key` of the
\* pivot (the values of the rest_labels columns), as field f stores it.
KeyIdentifier(f, key, cols) ==
    LET position(label) == CHOOSE p \in 1..Len(rest_labels) : rest_labels[p] = label
        text == Joined([c \in 1..Len(cols) |-> AsTypeStr(key[position(cols[c])])])
    IN IF f = "Region" THEN convert_iso_to_country_name(StrV(text)) ELSE StrV(text)

\* C3: in row mode (year and value column different, the mapping made on the
\* year table in place), every row of the assembled wide table carries in each
\* breadcrumb field the breadcrumb of the identity key whose year values the
\* row holds.
C3_RowModeIdentifiersFollowTheirKey ==
    ( /\ button = "Transform to IAMC Format"
      /\ year_config.years_in_rows
      /\ year_config.year_column # year_config.value_column
      /\ mapping_config.year_config = year_config )
    => LET keys == pivot_index(read_csv(selected_file), rest_labels)
       IN \A i \in RowIndex(final_iamc_df) : \A k \in 1..Len(Fields) :
             LET input == mapping_config.inputs[Fields[k]]
             IN (~input.use_static /\ input.selected_cols # <<>>) =>
                   final_iamc_df.rows[i][k] =
                       KeyIdentifier(Fields[k], keys[i], input.selected_cols)

\* C4: the selection of another source file empties the year table, the
\* identifier table, the wide table and the long table.
C4_SelectingAFileDiscardsEveryTable ==
    [][ (selected_file' # selected_file /\ selected_file' \in FileNames)
        => ( /\ year_df' = None
             /\ mapping_df' = None
             /\ final_iamc_df' = None
             /\ final_iamc_long_df' = None ) ]_vars

InvalidYearConfig(cfg) ==
    \/ cfg.years_in_rows /\ cfg.year_column = cfg.value_column
    \/ ~cfg.years_in_rows /\ cfg.year_columns = <<>>

\* C5: "Transform Year Columns" with the same column as year and value column,
\* or with no year column selected, shows an error and leaves
\* year_transformed false and year_df and rest_labels unset.
C5_InvalidYearConfigurationIsRefused ==
    [][ ( /\ button' = "Transform Year Columns"
          /\ ~year_transformed
          /\ InvalidYearConfig(year_config') )
        => ( /\ ~year_transformed'
             /\ year_df' = None
             /\ rest_labels' = None
             /\ ErrorShown' ) ]_vars

NoIdentifierColumns(df) == Range(df.cols) \cap Range(expected_id_vars) = {}
NoValueColumns(df) == Range(df.cols) \subseteq Range(expected_id_vars)

\* C7: "Transform to Long Format" on a wide table without identifier columns
\* or without value columns shows the error and leaves the long table of the
\* session state as it was.
C7_LongFormatIsRefused ==
    [][ ( /\ button' = "Transform to Long Format"
          /\ (NoIdentifierColumns(final_iamc_df) \/ NoValueColumns(final_iamc_df)) )
        => (LongError \in messages' /\ final_iamc_long_df' = final_iamc_long_df) ]_vars

\* A wide table without year columns was refused, and the long table made
\* before is still there.
C7_Witness ==
    /\ button = "Transform to Long Format"
    /\ LongError \in messages
    /\ NoValueColumns(final_iamc_df)
    /\ final_iamc_long_df # None

\* "Transform to Long Format" has just made the long table of the wide table.
LongMade == button = "Transform to Long Format" /\ LongError \notin messages

WideIdVars == long_id_vars(final_iamc_df)
WideYears == long_year_columns(final_iamc_df)
WideIds(i) == [j \in 1..Len(WideIdVars) |-> Cell(final_iamc_df, i, WideIdVars[j])]
\* The long row of wide row i and year column y.
LongRowOf(i, y) == WideIds(i) \o <<y, Cell(final_iamc_df, i, y)>>
WidePairs == RowIndex(final_iamc_df) \X Range(WideYears)

\* The long table holds one row for each (wide row, year column) pair and
\* nothing else: as many rows as pairs, and each pair's row as often as there
\* are pairs with that row.
OneLongRowPerPair ==
    /\ final_iamc_long_df.cols = WideIdVars \o <<YearLabel, ValueLabel>>
    /\ NRows(final_iamc_long_df) = Cardinality(WidePairs)
    /\ \A p \in WidePairs :
          Cardinality({k \in RowIndex(final_iamc_long_df) :
                          final_iamc_long_df.rows[k] = LongRowOf(p[1], p[2])})
          = Cardinality({q \in WidePairs : LongRowOf(q[1], q[2]) = LongRowOf(p[1], p[2])})

\* Pivoting the long table on Year, the identifier columns as the index, gives
\* the wide rows back: one row per wide row, with its identifiers and cells.
PivotGivesWideRowsBack ==
    /\ ~pivot_raises(final_iamc_long_df, WideIdVars, YearLabel)
    /\ LET keys == pivot_index(final_iamc_long_df, WideIdVars)
           back == pivot(final_iamc_long_df, WideIdVars, YearLabel, ValueLabel)
       IN /\ Len(keys) = NRows(final_iamc_df)
          /\ Range(back.cols) = Range(WideYears)
          /\ \A i \in RowIndex(final_iamc_df) : \E k \in 1..Len(keys) :
                /\ keys[k] = WideIds(i)
                /\ \A c \in 1..Len(back.cols) :
                      back.rows[k][c] = Cell(final_iamc_df, i, back.cols[c])

DistinctIdentifiers ==
    \A i, j \in RowIndex(final_iamc_df) : WideIds(i) = WideIds(j) => i = j

\* C8 as stated: one long row per (wide row, year column) pair, so that the
\* pivot on Year gives the wide rows back, for every wide table.
C8_LongRowsAndRoundTrip ==
    LongMade => (OneLongRowPerPair /\ PivotGivesWideRowsBack)

\* C8, amended: one long row per (wide row, year column) pair; the pivot on
\* Year gives the wide rows back when no two wide rows have the same
\* identifiers.
C8_LongRowsAndRoundTripOfDistinctRows ==
    LongMade => (OneLongRowPerPair /\ (DistinctIdentifiers => PivotGivesWideRowsBack))

\* Three wide rows of distinct identifiers and two year columns were melted.
C8_Witness ==
    /\ LongMade
    /\ DistinctIdentifiers
    /\ NRows(final_iamc_df) = 3
    /\ Len(WideYears) = 2
    /\ NRows(final_iamc_long_df) = 6
    /\ PivotGivesWideRowsBack

=============================================================================
